---- MODULE Spec2Model ----
(***************************************************************************)
(* Model of the two benchmark helper scripts of the repository:            *)
(*   .github/scripts/check_pop.py      (the Baseline Comparator)           *)
(*   .github/scripts/bench_summary.py  (the Estimate Collector)            *)
(*                                                                         *)
(* A results tree is a function from the relative paths of the files that  *)
(* exist below target/criterion to their contents.  A path is a sequence   *)
(* of segments and a segment is a sequence of code points, so that glob    *)
(* matching (hidden names) and string ordering (sorting) are computed on   *)
(* characters, as Python computes them.                                    *)
(*                                                                         *)
(* Point estimates are integer numbers of nanoseconds.  On such inputs the *)
(* double arithmetic of the scripts is exact: sums and differences of      *)
(* small integers are exact, and a correctly rounded quotient a/b is below *)
(* the double 0.10 exactly when 10*a < b.  Estimates with a fractional     *)
(* part, whose sums are rounded, are outside the model.                    *)
(***************************************************************************)
EXTENDS Integers, Sequences, FiniteSets, TLC

VARIABLES
    tree,        \* the files below target/criterion: path -> content
    rootExists,  \* CRITERION_DIR.exists()
    writable,    \* whether SUMMARY_PATH can be written
    pc,          \* position of the running script
    remaining,   \* matched paths the current loop has not consumed yet
    visited,     \* matched paths in the order the loop consumed them
    acc,         \* running total inside sum()
    base,        \* check_pop.py global `base`
    new,         \* check_pop.py global `new`
    impr,        \* check_pop.py global `impr`, as an exact fraction
    stdout,      \* lines printed by check_pop.py
    results,     \* bench_summary.py local `results`
    summary,     \* content of SUMMARY_PATH
    status,      \* process exit status
    diag,        \* message that accompanies a non-zero exit
    ns,          \* a point estimate handed to format_duration, in nanoseconds
    shown        \* what format_duration returned for it

vars == <<tree, rootExists, writable, pc, remaining, visited, acc, base, new,
          impr, stdout, results, summary, status, diag, ns, shown>>

----------------------------------------------------------------------------
(* Bounds *)

\* Largest number of files in a results tree of the comparator.
MaxFiles == 4

\* Largest number of files in a results tree of the collector.
MaxBenches == 3

\* Half-width of the window of durations examined around each unit boundary.
Radius == 4

----------------------------------------------------------------------------
(* Names, as sequences of code points *)

\* "pop_loop_vs_baseline"
GROUP == <<112, 111, 112, 95, 108, 111, 111, 112, 95, 118, 115, 95,
           98, 97, 115, 101, 108, 105, 110, 101>>

\* "base"
BaseName == <<98, 97, 115, 101>>

\* "new"
NewName == <<110, 101, 119>>

\* "estimates.json"
EstimatesJson == <<101, 115, 116, 105, 109, 97, 116, 101, 115, 46,
                   106, 115, 111, 110>>

\* "a", "b", "a-b", ".h", "other": directory names found in the trees
DirA == <<97>>
DirB == <<98>>
DirAdashB == <<97, 45, 98>>
DirHidden == <<46, 104>>
DirOther == <<111, 116, 104, 101, 114>>

NoPath == <<>>

----------------------------------------------------------------------------
(* File contents *)

\* mean.point_estimate values, in nanoseconds, of the comparator's trees
MeanValues == {-10, 0, 9, 10}

\* (mean, std_dev) point estimates, in nanoseconds, of the collector's trees
EstimatePairs == {<<1500000000, 50000000>>, <<999999999, 999999>>, <<1200, 0>>}

Good(m, s) == [kind |-> "good", mean |-> m, std |-> s]

Bad(k) == [kind |-> k, mean |-> 0, std |-> 0]

\* "badjson":    not JSON (json.JSONDecodeError)
\* "unreadable": open()/read_text() raises OSError
\* "badutf8":    bytes that are not UTF-8 (UnicodeDecodeError, a ValueError)
\* "nomean":     well-formed JSON without the "mean" record (KeyError)
\* "nostd":      well-formed JSON without the "std_dev" record (KeyError)
\* "nonnumeric": a point_estimate that float() rejects (ValueError)
ComparatorContents ==
    {Good(m, 0) : m \in MeanValues}
        \cup {Bad(k) : k \in {"badjson", "unreadable", "badutf8", "nomean"}}

CollectorContents ==
    {Good(p[1], p[2]) : p \in EstimatePairs}
        \cup {Bad(k) : k \in {"badjson", "unreadable", "badutf8", "nomean",
                              "nostd", "nonnumeric"}}

\* Candidate files of the comparator's trees, relative to target/criterion
ComparatorPaths ==
    { <<GROUP, BaseName, EstimatesJson>>,
      <<GROUP, DirA, BaseName, EstimatesJson>>,
      <<GROUP, DirHidden, BaseName, EstimatesJson>>,
      <<GROUP, NewName, EstimatesJson>>,
      <<GROUP, DirA, NewName, EstimatesJson>>,
      <<DirOther, BaseName, EstimatesJson>> }

\* Candidate files of the collector's trees, relative to target/criterion
CollectorPaths ==
    { <<DirA, NewName, EstimatesJson>>,
      <<DirA, DirB, NewName, EstimatesJson>>,
      <<DirAdashB, NewName, EstimatesJson>>,
      <<DirHidden, NewName, EstimatesJson>>,
      <<DirA, BaseName, EstimatesJson>> }

Trees(paths, contents, n) ==
    UNION { [F -> contents] :
              F \in {G \in SUBSET paths : Cardinality(G) <= n} }

NoImpr == [computed |-> FALSE, num |-> 0, den |-> 1]

NoDiag == [msg |-> "none", arg |-> NoPath]

NoSummary == [written |-> FALSE, text |-> "", rows |-> <<>>]

NoShown == [unit |-> "none", hundredths |-> 0]

----------------------------------------------------------------------------
(* check_pop.py *)

\* A name that glob's wildcards do not match: it starts with a dot.
IsHidden(seg) == Len(seg) > 0 /\ seg[1] = 46

\* The earlier fixed-path lookup: only <group>/<baseline>/estimates.json.
GlobMatches_fixed(baseline) ==
    { p \in DOMAIN tree : p = <<GROUP, baseline, EstimatesJson>> }

\* glob.glob(f"target/criterion/{GROUP}/**/{baseline}/estimates.json",
\*           recursive=True): the group, then zero or more directories that
\* are not hidden, then the baseline directory and the file name.
GlobMatches(baseline) ==
    { p \in DOMAIN tree :
        /\ Len(p) >= 3
        /\ p[1] = GROUP
        /\ p[Len(p) - 1] = baseline
        /\ p[Len(p)] = EstimatesJson
        /\ \A i \in 2..(Len(p) - 2) : ~IsHidden(p[i]) }

\* A read_mean that treats a file that is not JSON as an estimate of zero.
ReadMean_skip(path) ==
    LET c == tree[path] IN
    CASE c.kind = "good" -> [ok |-> TRUE, value |-> c.mean, diag |-> NoDiag]
      [] c.kind = "badjson" -> [ok |-> TRUE, value |-> 0, diag |-> NoDiag]
      [] c.kind = "unreadable" ->
            [ok |-> FALSE, value |-> 0,
             diag |-> [msg |-> "Traceback OSError", arg |-> path]]
      [] c.kind = "badutf8" ->
            [ok |-> FALSE, value |-> 0,
             diag |-> [msg |-> "Traceback UnicodeDecodeError", arg |-> NoPath]]
      [] OTHER ->
            [ok |-> FALSE, value |-> 0,
             diag |-> [msg |-> "Traceback KeyError", arg |-> NoPath]]

\* read_mean(path): the value returned, or how the call ends the run.  Only
\* json.JSONDecodeError is caught; the message of an OSError carries the
\* file name, that of a UnicodeDecodeError or a KeyError does not.
ReadMean(path) ==
    LET c == tree[path] IN
    CASE c.kind = "good" -> [ok |-> TRUE, value |-> c.mean, diag |-> NoDiag]
      [] c.kind = "badjson" ->
            [ok |-> FALSE, value |-> 0,
             diag |-> [msg |-> "invalid JSON", arg |-> path]]
      [] c.kind = "unreadable" ->
            [ok |-> FALSE, value |-> 0,
             diag |-> [msg |-> "Traceback OSError", arg |-> path]]
      [] c.kind = "badutf8" ->
            [ok |-> FALSE, value |-> 0,
             diag |-> [msg |-> "Traceback UnicodeDecodeError", arg |-> NoPath]]
      [] OTHER ->
            [ok |-> FALSE, value |-> 0,
             diag |-> [msg |-> "Traceback KeyError", arg |-> NoPath]]

\* An empty-match check that never fires.
NoEstimates_never(paths) == FALSE

\* `if not paths: sys.exit(...)`
NoEstimates(paths) == paths = {}

\* A validity check that lets a zero aggregate through.
InvalidBaseline_strict(b) == b < 0

\* `if base <= 0: sys.exit(...)`
InvalidBaseline(b) == b <= 0

\* impr = (base - new) / base
Improvement(b, n) == [computed |-> TRUE, num |-> b - n, den |-> b]

\* A gate that also rejects an improvement of exactly 10%.
BelowThreshold_inclusive(r) ==
    IF r.den > 0 THEN 10 * r.num <= r.den ELSE 10 * r.num >= r.den

\* `if impr < 0.10`: num/den < 1/10, cross-multiplied by the sign of den
BelowThreshold(r) ==
    IF r.den > 0 THEN 10 * r.num < r.den ELSE 10 * r.num > r.den

Exit(code, d) ==
    /\ pc' = "exit"
    /\ status' = code
    /\ diag' = d

\* sum_means(baseline), lines 14-16: the glob and the empty check
SumMeansGlob(at, baseline, next) ==
    /\ pc = at
    /\ LET paths == GlobMatches(baseline) IN
       IF NoEstimates(paths)
       THEN /\ Exit(1, [msg |-> "no estimates for baseline", arg |-> baseline])
            /\ UNCHANGED <<remaining, visited, acc>>
       ELSE /\ pc' = next
            /\ remaining' = paths
            /\ visited' = <<>>
            /\ acc' = 0
            /\ UNCHANGED <<status, diag>>
    /\ UNCHANGED <<tree, rootExists, writable, base, new, impr, stdout,
                   results, summary, ns, shown>>

\* sum_means(baseline), line 17: one iteration of sum(read_mean(p) for p in
\* paths); glob yields the paths in directory order, which is arbitrary.
SumMeansStep(at) ==
    /\ pc = at
    /\ \E p \in remaining :
         LET r == ReadMean(p) IN
         /\ visited' = Append(visited, p)
         /\ remaining' = remaining \ {p}
         /\ IF r.ok
            THEN /\ acc' = acc + r.value
                 /\ UNCHANGED <<pc, status, diag>>
            ELSE /\ Exit(1, r.diag)
                 /\ UNCHANGED acc
    /\ UNCHANGED <<tree, rootExists, writable, base, new, impr, stdout,
                   results, summary, ns, shown>>

\* `base = sum_means("base")`, line 19
BaseGlob == SumMeansGlob("base_glob", BaseName, "base_sum")

BaseStep == SumMeansStep("base_sum")

BaseReturn ==
    /\ pc = "base_sum"
    /\ remaining = {}
    /\ base' = acc
    /\ pc' = "new_glob"
    /\ UNCHANGED <<tree, rootExists, writable, remaining, visited, acc, new,
                   impr, stdout, results, summary, status, diag, ns, shown>>

\* `new = sum_means("new")`, line 20
NewGlob == SumMeansGlob("new_glob", NewName, "new_sum")

NewStep == SumMeansStep("new_sum")

NewReturn ==
    /\ pc = "new_sum"
    /\ remaining = {}
    /\ new' = acc
    /\ pc' = "compare"
    /\ UNCHANGED <<tree, rootExists, writable, remaining, visited, acc, base,
                   impr, stdout, results, summary, status, diag, ns, shown>>

\* Lines 21-27: the validity check, the ratio, the report and the gate.
\* A division by zero raises ZeroDivisionError before anything is printed.
Compare ==
    /\ pc = "compare"
    /\ IF InvalidBaseline(base)
       THEN /\ Exit(1, [msg |-> "invalid baseline (base <= 0)", arg |-> NoPath])
            /\ UNCHANGED <<impr, stdout>>
       ELSE IF base = 0
       THEN /\ Exit(1, [msg |-> "Traceback ZeroDivisionError", arg |-> NoPath])
            /\ UNCHANGED <<impr, stdout>>
       ELSE LET r == Improvement(base, new) IN
            /\ impr' = r
            /\ stdout' = Append(stdout, [line |-> "Improvement", impr |-> r,
                                         base |-> base, new |-> new])
            /\ IF BelowThreshold(r)
               THEN Exit(1, [msg |-> "pop loop speedup <10%", arg |-> NoPath])
               ELSE Exit(0, NoDiag)
    /\ UNCHANGED <<tree, rootExists, writable, remaining, visited, acc, base,
                   new, results, summary, ns, shown>>

InitComparator ==
    /\ tree \in Trees(ComparatorPaths, ComparatorContents, MaxFiles)
    /\ rootExists = TRUE
    /\ writable = TRUE
    /\ pc = "base_glob"
    /\ remaining = {}
    /\ visited = <<>>
    /\ acc = 0
    /\ base = 0
    /\ new = 0
    /\ impr = NoImpr
    /\ stdout = <<>>
    /\ results = <<>>
    /\ summary = NoSummary
    /\ status = 0
    /\ diag = NoDiag
    /\ ns = 0
    /\ shown = NoShown

NextComparator ==
    \/ BaseGlob
    \/ BaseStep
    \/ BaseReturn
    \/ NewGlob
    \/ NewStep
    \/ NewReturn
    \/ Compare

SpecComparator == InitComparator /\ [][NextComparator]_vars

----------------------------------------------------------------------------
(* bench_summary.py *)

\* Nanoseconds in one second, millisecond and microsecond
NsPerUnit(u) ==
    CASE u = "s" -> 1000000000
      [] u = "ms" -> 1000000
      [] u = "us" -> 1000

\* float(point_estimate) / 1_000_000_000.0, as an exact fraction of a second
Seconds(nanos) == [num |-> nanos, den |-> NsPerUnit("s")]

\* x * 1_000.0, on a fraction whose denominator is a multiple of 1000
TimesThousand(x) == [num |-> x.num, den |-> x.den \div 1000]

\* A comparison that sends a value of exactly 1.0 to the smaller unit.
AtLeastOne_strict(x) == x.num > x.den

\* x >= 1.0
AtLeastOne(x) == x.num >= x.den

\* f"{x:.2f}": x in hundredths, rounded to the nearest, a tie to the even
\* digit.  (The denominator is a multiple of 100.)
TwoDecimals(x) ==
    LET h == x.den \div 100
        q == x.num \div h
        r == x.num % h
    IN IF 2 * r > h \/ (2 * r = h /\ q % 2 = 1) THEN q + 1 ELSE q

\* format_duration(seconds); "us" stands for the unit written µs
format_duration(seconds) ==
    IF AtLeastOne(seconds)
    THEN [unit |-> "s", hundredths |-> TwoDecimals(seconds)]
    ELSE LET milliseconds == TimesThousand(seconds) IN
         IF AtLeastOne(milliseconds)
         THEN [unit |-> "ms", hundredths |-> TwoDecimals(milliseconds)]
         ELSE LET microseconds == TimesThousand(milliseconds) IN
              [unit |-> "us", hundredths |-> TwoDecimals(microseconds)]

\* CRITERION_DIR.rglob("new/estimates.json"): every file named
\* estimates.json in a directory named new, at any depth, hidden or not.
RglobMatches ==
    { p \in DOMAIN tree :
        /\ Len(p) >= 2
        /\ p[Len(p) - 1] = NewName
        /\ p[Len(p)] = EstimatesJson }

RECURSIVE Join(_)
\* "/".join(parts)
Join(parts) ==
    IF parts = <<>> THEN <<>>
    ELSE IF Len(parts) = 1 THEN parts[1]
    ELSE parts[1] \o <<47>> \o Join(Tail(parts))

\* "/".join(estimate_path.relative_to(CRITERION_DIR).parts[:-2])
BenchName(path) == Join(SubSeq(path, 1, Len(path) - 2))

\* a < b for Python strings: by code point, a proper prefix first
StrLess(a, b) ==
    \E i \in 1..Len(b) :
        /\ i <= Len(a) + 1
        /\ \A j \in 1..(i - 1) : a[j] = b[j]
        /\ (i = Len(a) + 1 \/ a[i] < b[i])

RECURSIVE InsertByName(_, _)
\* x placed after the last tuple whose name is not greater (a stable insert)
InsertByName(sorted, x) ==
    IF sorted = <<>> THEN <<x>>
    ELSE IF StrLess(x[1], sorted[1][1]) THEN <<x>> \o sorted
    ELSE <<sorted[1]>> \o InsertByName(Tail(sorted), x)

\* A collector that leaves the tuples in the order of the directory walk.
SortByName_none(seq) == seq

RECURSIVE SortByName(_)
\* results.sort(key=lambda item: item[0])
SortByName(seq) ==
    IF seq = <<>> THEN <<>>
    ELSE InsertByName(SortByName(SubSeq(seq, 1, Len(seq) - 1)), seq[Len(seq)])

\* What the body of the loop does with one matched file: "skip" it
\* (`continue`), "append" a tuple, or "raise" an exception nothing catches.
Outcome(c) ==
    CASE c.kind \in {"unreadable", "badjson"} -> "skip"
      [] c.kind = "good" -> "append"
      [] OTHER -> "raise"

\* The exception that a file of each kind raises out of the loop
Raised(c) ==
    CASE c.kind = "badutf8" -> "Traceback UnicodeDecodeError"
      [] c.kind \in {"nomean", "nostd"} -> "Traceback KeyError"
      [] OTHER -> "Traceback ValueError"

\* One table line: the name in code marks and the two formatted durations
Row(t) == [name |-> t[1], mean |-> format_duration(t[2]),
           std |-> format_duration(t[3])]

\* collect_estimates(), lines 25-29
CollectStart ==
    /\ pc = "collect"
    /\ IF ~rootExists
       THEN /\ pc' = "main"
            /\ UNCHANGED <<remaining, visited>>
       ELSE /\ pc' = "walk"
            /\ remaining' = RglobMatches
            /\ visited' = <<>>
    /\ results' = <<>>
    /\ UNCHANGED <<tree, rootExists, writable, acc, base, new, impr, stdout,
                   summary, status, diag, ns, shown>>

\* collect_estimates(), lines 29-39: one iteration of the loop; rglob
\* yields the files in directory order, which is arbitrary.
CollectStep ==
    /\ pc = "walk"
    /\ \E p \in remaining :
         LET c == tree[p] IN
         /\ remaining' = remaining \ {p}
         /\ visited' = Append(visited, p)
         /\ CASE Outcome(c) = "skip" ->
                   UNCHANGED <<results, pc, status, diag>>
              [] Outcome(c) = "append" ->
                   /\ results' = Append(results,
                         <<BenchName(p), Seconds(c.mean), Seconds(c.std)>>)
                   /\ UNCHANGED <<pc, status, diag>>
              [] OTHER ->
                   /\ Exit(1, [msg |-> Raised(c), arg |-> NoPath])
                   /\ UNCHANGED results
    /\ UNCHANGED <<tree, rootExists, writable, acc, base, new, impr, stdout,
                   summary, ns, shown>>

\* collect_estimates(), lines 41-42
CollectSort ==
    /\ pc = "walk"
    /\ remaining = {}
    /\ results' = SortByName(results)
    /\ pc' = "main"
    /\ UNCHANGED <<tree, rootExists, writable, remaining, visited, acc, base,
                   new, impr, stdout, summary, status, diag, ns, shown>>

\* main(), lines 46-56
Main ==
    /\ pc = "main"
    /\ IF ~writable
       THEN /\ Exit(1, [msg |-> "Traceback OSError", arg |-> NoPath])
            /\ UNCHANGED summary
       ELSE /\ Exit(0, NoDiag)
            /\ summary' =
                 IF results = <<>>
                 THEN [written |-> TRUE,
                       text |-> "No benchmark results found.\n",
                       rows |-> <<>>]
                 ELSE [written |-> TRUE,
                       text |-> "| Benchmark | Mean | Std Dev |",
                       rows |-> [i \in 1..Len(results) |-> Row(results[i])]]
    /\ UNCHANGED <<tree, rootExists, writable, remaining, visited, acc, base,
                   new, impr, stdout, results, ns, shown>>

InitCollector ==
    /\ rootExists \in BOOLEAN
    /\ tree \in IF rootExists
                THEN Trees(CollectorPaths, CollectorContents, MaxBenches)
                ELSE {<<>>}
    /\ writable \in BOOLEAN
    /\ pc = "collect"
    /\ remaining = {}
    /\ visited = <<>>
    /\ acc = 0
    /\ base = 0
    /\ new = 0
    /\ impr = NoImpr
    /\ stdout = <<>>
    /\ results = <<>>
    /\ summary = NoSummary
    /\ status = 0
    /\ diag = NoDiag
    /\ ns = 0
    /\ shown = NoShown

NextCollector ==
    \/ CollectStart
    \/ CollectStep
    \/ CollectSort
    \/ Main

SpecCollector == InitCollector /\ [][NextCollector]_vars

----------------------------------------------------------------------------
(* format_duration on its own *)

\* Durations around which the formatting is examined, in nanoseconds
Centres == {0, 1000, 995000, 1000000, 50000000, 995000000, 1000000000,
            1500000000}

\* A duration that is exactly halfway between two printed values in some
\* unit.  There the digit printed depends on the binary expansion of the
\* double, which the exact fractions of this model do not carry.
IsDecimalTie(nanos) ==
    \E u \in {"s", "ms", "us"} :
        2 * (nanos % (NsPerUnit(u) \div 100)) = NsPerUnit(u) \div 100

DurationInputs ==
    { n \in UNION { (c - Radius)..(c + Radius) : c \in Centres } :
        n >= 0 /\ ~IsDecimalTie(n) }

\* lines 35-36 and 54: a point estimate is converted and formatted
FormatCall ==
    /\ pc = "format"
    /\ shown' = format_duration(Seconds(ns))
    /\ pc' = "exit"
    /\ UNCHANGED <<tree, rootExists, writable, remaining, visited, acc, base,
                   new, impr, stdout, results, summary, status, diag, ns>>

InitFormat ==
    /\ ns \in DurationInputs
    /\ pc = "format"
    /\ tree = <<>>
    /\ rootExists = TRUE
    /\ writable = TRUE
    /\ remaining = {}
    /\ visited = <<>>
    /\ acc = 0
    /\ base = 0
    /\ new = 0
    /\ impr = NoImpr
    /\ stdout = <<>>
    /\ results = <<>>
    /\ summary = NoSummary
    /\ status = 0
    /\ diag = NoDiag
    /\ shown = NoShown

NextFormat == FormatCall

SpecFormat == InitFormat /\ [][NextFormat]_vars

----------------------------------------------------------------------------
(* Properties of check_pop.py *)

RECURSIVE SumOfMeans(_)
\* The exact sum of the mean point estimates of a set of files.
SumOfMeans(S) ==
    IF S = {} THEN 0
    ELSE LET p == CHOOSE q \in S : TRUE
         IN tree[p].mean + SumOfMeans(S \ {p})

Range(seq) == {seq[i] : i \in 1..Len(seq)}

NoDuplicates(seq) == \A i, j \in 1..Len(seq) : seq[i] = seq[j] => i = j

\* Files at <group>/<zero or more directories>/<baseline>/estimates.json
UnderGroup(baseline) ==
    { p \in DOMAIN tree :
        \E mid \in {SubSeq(p, 2, Len(p) - 2)} :
            p = <<GROUP>> \o mid \o <<baseline, EstimatesJson>> }

\* The same, with no directory in between whose name starts with a dot
VisibleUnderGroup(baseline) ==
    { p \in UnderGroup(baseline) :
        \A i \in 2..(Len(p) - 2) : p[i][1] # 46 }

BadFiles(S) == {p \in S : tree[p].kind # "good"}

Found(baseline) == GlobMatches(baseline) # {}

AllParse(baseline) == BadFiles(GlobMatches(baseline)) = {}

BothFoundAndParsed ==
    /\ Found(BaseName) /\ AllParse(BaseName)
    /\ Found(NewName) /\ AllParse(NewName)

Exited == pc = "exit"

\* C1: in a run where both baselines are found, every matching file parses
\* and the base aggregate is positive, the exit status is failure exactly
\* when (base - new) / base < 1/10; an improvement of exactly 10% succeeds
\* and a regression fails.
C1_ThresholdGate ==
    (Exited /\ BothFoundAndParsed /\ base > 0) =>
        /\ (status # 0) <=> (10 * (base - new) < base)
        /\ (10 * (base - new) = base) => status = 0
        /\ (new > base) => status # 0
        /\ (status # 0) => diag.msg = "pop loop speedup <10%"

C1_Witness ==
    /\ Exited /\ BothFoundAndParsed /\ base > 0
    /\ 10 * (base - new) = base
    /\ status = 0

\* C2, as claimed: when no file matches baseline "new" the run fails with
\* the message naming "new" and without any arithmetic (nothing summed, no
\* ratio, no improvement line), whatever baseline "base" contains.
C2_Original ==
    (Exited /\ ~Found(NewName)) =>
        /\ status # 0
        /\ diag = [msg |-> "no estimates for baseline", arg |-> NewName]
        /\ visited = <<>>
        /\ ~impr.computed
        /\ stdout = <<>>

\* C2, amended: when no file matches baseline "new" the run fails, computes
\* no ratio and prints no improvement line; when baseline "base" was found
\* and all its files parse, the message names "new", and the estimates of
\* "base" have been summed by then.
C2_MissingNew ==
    (Exited /\ ~Found(NewName)) =>
        /\ status # 0
        /\ ~impr.computed
        /\ stdout = <<>>
        /\ (Found(BaseName) /\ AllParse(BaseName)) =>
              /\ diag = [msg |-> "no estimates for baseline", arg |-> NewName]
              /\ base = SumOfMeans(GlobMatches(BaseName))

C2_Witness ==
    /\ Exited /\ ~Found(NewName)
    /\ Found(BaseName) /\ AllParse(BaseName)
    /\ base # 0
    /\ diag.arg = NewName

AnyBadFile == BadFiles(GlobMatches(BaseName) \cup GlobMatches(NewName)) # {}

LastVisited == visited[Len(visited)]

\* C3, as claimed: when any file matching either baseline cannot be read or
\* parsed, the run fails with a diagnostic that reports the path of an
\* offending file, and prints no improvement line.
C3_Original ==
    (Exited /\ AnyBadFile) =>
        /\ status # 0
        /\ stdout = <<>>
        /\ diag.arg \in BadFiles(GlobMatches(BaseName) \cup GlobMatches(NewName))

\* C3, amended: when any file matching either baseline cannot be read or
\* parsed, the run fails and prints no improvement line; the diagnostic
\* reports the path of the offending file when the run ends at a file whose
\* text is not JSON or that cannot be opened, and reports no path when it
\* ends at a missing baseline, at a file that is not UTF-8 text or at a
\* well-formed file without the mean record.
C3_CorruptIsFatal ==
    (Exited /\ AnyBadFile) =>
        /\ status # 0
        /\ stdout = <<>>
        /\ ~impr.computed
        /\ \/ /\ diag.msg = "no estimates for baseline"
              /\ diag.arg \in {BaseName, NewName}
              /\ ~Found(diag.arg)
           \/ /\ visited # <<>>
              /\ tree[LastVisited].kind # "good"
              /\ \A i \in 1..(Len(visited) - 1) : tree[visited[i]].kind = "good"
              /\ tree[LastVisited].kind = "badjson" =>
                    diag = [msg |-> "invalid JSON", arg |-> LastVisited]
              /\ tree[LastVisited].kind = "unreadable" =>
                    diag.arg = LastVisited
              /\ tree[LastVisited].kind \in {"nomean", "badutf8"} =>
                    (diag.arg = NoPath /\ diag.msg # "invalid JSON")

C3_Witness ==
    /\ Exited /\ AnyBadFile
    /\ Len(visited) >= 2
    /\ tree[LastVisited].kind = "badjson"
    /\ LastVisited \in GlobMatches(NewName)
    /\ diag = [msg |-> "invalid JSON", arg |-> LastVisited]

\* C4: when both baselines were found and parsed and the base aggregate is
\* not positive, the run fails with the "invalid baseline" message, the
\* ratio is not computed and nothing is printed; a ratio that is computed
\* has a positive divisor.
C4_InvalidBaseline ==
    /\ (Exited /\ BothFoundAndParsed /\ base <= 0) =>
          /\ status # 0
          /\ diag.msg = "invalid baseline (base <= 0)"
          /\ ~impr.computed
          /\ stdout = <<>>
    /\ impr.computed => impr.den > 0

C4_Witness ==
    /\ Exited /\ BothFoundAndParsed
    /\ base = 0
    /\ Cardinality(GlobMatches(BaseName)) = 2
    /\ diag.msg = "invalid baseline (base <= 0)"

\* C8, as claimed: each aggregate is the sum over every file at
\* <group>/<zero or more directories>/<baseline>/estimates.json.
C8_Original ==
    /\ pc \in {"new_glob", "new_sum", "compare"} =>
          base = SumOfMeans(UnderGroup(BaseName))
    /\ pc = "compare" => new = SumOfMeans(UnderGroup(NewName))

\* C8, amended: each aggregate is the sum of mean.point_estimate over
\* exactly the files at <group>/<zero or more directories, none with a name
\* that starts with a dot>/<baseline>/estimates.json; every such file is
\* read once, no other file is read, and the sum is the same for every
\* order of enumeration.
C8_Aggregate ==
    /\ pc \in {"new_glob", "new_sum", "compare"} =>
          base = SumOfMeans(VisibleUnderGroup(BaseName))
    /\ pc = "new_glob" =>
          /\ Range(visited) = VisibleUnderGroup(BaseName)
          /\ NoDuplicates(visited)
    /\ pc = "compare" =>
          /\ new = SumOfMeans(VisibleUnderGroup(NewName))
          /\ Range(visited) = VisibleUnderGroup(NewName)
          /\ NoDuplicates(visited)

C8_Witness ==
    /\ pc = "new_glob"
    /\ visited = << <<GROUP, DirA, BaseName, EstimatesJson>>,
                    <<GROUP, BaseName, EstimatesJson>> >>
    /\ <<DirOther, BaseName, EstimatesJson>> \in DOMAIN tree
    /\ <<GROUP, NewName, EstimatesJson>> \in DOMAIN tree
    /\ base = 19

----------------------------------------------------------------------------
(* Properties of bench_summary.py *)

NoResultsText == "No benchmark results found.\n"

TableText == "| Benchmark | Mean | Std Dev |"

\* The matched files that are read and parsed into an estimate
GoodFiles == {p \in RglobMatches : tree[p].kind = "good"}

\* The table line of a well-formed file
RowOf(p) ==
    Row(<<BenchName(p), Seconds(tree[p].mean), Seconds(tree[p].std)>>)

RowsOccurrences(p) ==
    Cardinality({i \in 1..Len(summary.rows) : summary.rows[i] = RowOf(p)})

\* C5: where the output can be written, the collector writes exactly the
\* sentence "No benchmark results found.\n" if and only if no estimate
\* tuple was extracted, and writes the table in every other run.
C5_EmptyReport ==
    (Exited /\ writable) =>
        /\ summary.written
        /\ (summary.text = NoResultsText /\ summary.rows = <<>>)
              <=> (GoodFiles = {})
        /\ (GoodFiles # {}) =>
              (summary.text = TableText /\ summary.rows # <<>>)

\* C6: the report has exactly one row for each file that is read and parsed
\* and none for a file whose read or parse fails; a failing file does not
\* remove or alter the row of another file.
C6_PerFileSkip ==
    (Exited /\ writable) =>
        /\ \A p \in GoodFiles : RowsOccurrences(p) = 1
        /\ Len(summary.rows) = Cardinality(GoodFiles)

\* C7: for every content of the results tree the collector runs to the end,
\* writes its one output file and exits with success; a run fails only when
\* the output path cannot be written.
C7_ExitStatus ==
    Exited =>
        /\ writable => (status = 0 /\ summary.written)
        /\ (status # 0) => ~writable

\* C9: in every rendered table the rows are in strictly ascending order of
\* benchmark identifier, so no identifier appears twice, and the table is
\* determined by the results tree alone: one row per well-formed file,
\* whatever the order of the directory walk.
C9_RowOrder ==
    (summary.written /\ summary.text = TableText) =>
        /\ \A i \in 1..(Len(summary.rows) - 1) :
              StrLess(summary.rows[i].name, summary.rows[i + 1].name)
        /\ \A i, j \in 1..Len(summary.rows) :
              summary.rows[i].name = summary.rows[j].name => i = j
        /\ \A p \in GoodFiles : RowsOccurrences(p) = 1
        /\ Len(summary.rows) = Cardinality(GoodFiles)

\* A table of three rows written after a walk that met the files in
\* descending order of identifier
C9_Witness ==
    /\ summary.written /\ summary.text = TableText
    /\ Len(summary.rows) = 3
    /\ Len(visited) = 3
    /\ StrLess(BenchName(visited[3]), BenchName(visited[2]))
    /\ StrLess(BenchName(visited[2]), BenchName(visited[1]))

----------------------------------------------------------------------------
(* Properties of format_duration *)

\* The duration in unit u, in hundredths, rounded as it would be printed
DisplayedIn(u) ==
    LET h == NsPerUnit(u) \div 100
        q == ns \div h
        r == ns % h
    IN IF 2 * r > h \/ (2 * r = h /\ q % 2 = 1) THEN q + 1 ELSE q

Formatted == pc = "exit" /\ shown.unit # "none"

\* C10, as claimed: the unit chosen is the largest unit in which the
\* magnitude as printed, rounded to two decimals, is at least 1.00, and
\* microseconds otherwise.
C10_Original ==
    Formatted =>
        shown.unit = IF DisplayedIn("s") >= 100 THEN "s"
                     ELSE IF DisplayedIn("ms") >= 100 THEN "ms"
                     ELSE "us"

\* C10, amended: the seconds value is the estimate divided by 1e9 and the
\* unit chosen is the largest unit in which the value before rounding is
\* at least 1.0, and microseconds otherwise; the magnitude printed is the
\* value in that unit rounded to two decimals, which just below a unit
\* boundary is 1000.00 of the smaller unit.
C10_UnitChoice ==
    Formatted =>
        /\ shown.unit = "s" <=> ns >= NsPerUnit("s")
        /\ shown.unit = "ms" <=> (NsPerUnit("ms") <= ns /\ ns < NsPerUnit("s"))
        /\ shown.unit = "us" <=> ns < NsPerUnit("ms")
        /\ shown.hundredths = DisplayedIn(shown.unit)
        /\ ns \in {999999999, 999999} => shown.hundredths = 100000

C10_Witness ==
    /\ Formatted
    /\ ns = 999999999
    /\ shown = [unit |-> "ms", hundredths |-> 100000]

====
